---------------------------- MODULE Spec2Model ----------------------------
(***************************************************************************)
(* Commodity_Trends.py: FRED series compared across two presidential       *)
(* terms.  The module models the term calendar, the series fetcher, the    *)
(* metrics engine (compute_metrics), the trend plotter loop and the        *)
(* summary builder loop.                                                   *)
(*                                                                         *)
(* Numbers.  Observation values are floats in the program; the model uses  *)
(* the dyadic rationals k/Scale (k an integer), which floats hold exactly. *)
(* A rounded output (round(x, 2)) is an integer count of hundredths.       *)
(* Statistics are computed in exact rational arithmetic and then rounded   *)
(* to the nearest hundredth, ties to even as numpy's rint does; the last-  *)
(* bit error of the float operations is not modelled, and the sign of a    *)
(* zero is not kept.  NaN and the infinities are kept as cells of their    *)
(* own kind, None as a cell of kind "none".                                *)
(*                                                                         *)
(* Dates are day numbers computed from (year, month, day) by datetime.     *)
(***************************************************************************)
EXTENDS Integers, Sequences, FiniteSets, TLC

VARIABLES
    raw,            \* what fred.get_series returned to the latest fetch
    data,           \* the series fetch_fred_data returned
    filtered_data,  \* plot_of_metrics: the series handed to ax.plot
    stats,          \* the latest compute_metrics results, <<trump, biden>>
    metric_dict,    \* the input mapping, as the sequence of its labels
    pc,             \* position of the script
    i,              \* number of labels the running loop has consumed
    plot_log,       \* plot_of_metrics: per label, shown or error
    printed,        \* messages printed by the except branches
    results,        \* detailed_value_summary: the rows appended so far
    sum_log,        \* detailed_value_summary: per label, its outcome
    summary         \* the DataFrame detailed_value_summary returned

vars == <<raw, data, filtered_data, stats, metric_dict, pc, i, plot_log,
          printed, results, sum_log, summary>>

---------------------------------------------------------------------------
(* Bounds of the model *)

\* longest upstream response, in observations
MaxObs == 2

\* largest number of labels in the input mapping
MaxLabels == 2

\* values are multiples of 1/Scale
Scale == 2 * 2 * 2

---------------------------------------------------------------------------
(* Cells of an output row *)

None == [kind |-> "none", val |-> 0]
NaN == [kind |-> "nan", val |-> 0]
PosInf == [kind |-> "inf", val |-> 0]
NegInf == [kind |-> "-inf", val |-> 0]
Num(c) == [kind |-> "num", val |-> c]

\* nearest integer to n / d (d > 0), ties to the even one
RoundDiv(n, d) ==
    LET q == n \div d
        r == n % d
    IN  IF 2 * r < d THEN q
        ELSE IF 2 * r > d THEN q + 1
        ELSE IF q % 2 = 0 THEN q ELSE q + 1

\* round(x, 2) for x = num / den (den > 0): the count of hundredths
round(num, den) == Num(RoundDiv(100 * num, den))

RECURSIVE SqrtSearch(_, _, _, _)
\* largest c in lo .. hi - 1 with (2c - 1)^2 * d <= 4 * n
SqrtSearch(lo, hi, n, d) ==
    IF hi - lo <= 1 THEN lo
    ELSE LET mid == (lo + hi) \div 2
         IN  IF (2 * mid - 1) * (2 * mid - 1) * d <= 4 * n
             THEN SqrtSearch(mid, hi, n, d)
             ELSE SqrtSearch(lo, mid, n, d)

RECURSIVE SqrtUpper(_, _, _)
SqrtUpper(hi, n, d) ==
    IF (2 * hi - 1) * (2 * hi - 1) * d <= 4 * n THEN SqrtUpper(2 * hi, n, d) ELSE hi

\* nearest integer to sqrt(n / d), n >= 0, d > 0
RoundSqrt(n, d) == SqrtSearch(0, SqrtUpper(1, n, d), n, d)

---------------------------------------------------------------------------
(* Natural numbers of any size, as little-endian sequences of limbs *)

Base == 10 * 10 * 10 * 10

RECURSIVE BigMulSmall(_, _, _)
\* a * k + carry
BigMulSmall(a, k, carry) ==
    IF a = <<>>
    THEN IF carry = 0 THEN <<>>
         ELSE <<carry % Base>> \o BigMulSmall(<<>>, k, carry \div Base)
    ELSE LET p == Head(a) * k + carry
         IN  <<p % Base>> \o BigMulSmall(Tail(a), k, p \div Base)

RECURSIVE BigTimesPow(_, _, _)
\* a * k^n, k > 0
BigTimesPow(a, k, n) ==
    IF n = 0 THEN a ELSE BigTimesPow(BigMulSmall(a, k, 0), k, n - 1)

RECURSIVE BigLeqFrom(_, _, _)
BigLeqFrom(a, b, j) ==
    IF j = 0 THEN TRUE
    ELSE IF a[j] # b[j] THEN a[j] < b[j]
    ELSE BigLeqFrom(a, b, j - 1)

BigLeq(a, b) ==
    IF Len(a) # Len(b) THEN Len(a) < Len(b) ELSE BigLeqFrom(a, b, Len(a))

RECURSIVE Gcd(_, _)
Gcd(a, b) == IF b = 0 THEN a ELSE Gcd(b, a % b)

---------------------------------------------------------------------------
(* Term calendar *)

\* datetime(y, m, d) as a day number (proleptic Gregorian calendar)
datetime(y, m, d) ==
    LET yy == IF m <= 2 THEN y - 1 ELSE y
        era == yy \div 400
        yoe == yy - era * 400
        mp == IF m > 2 THEN m - 3 ELSE m + 9
        doy == (153 * mp + 2) \div 5 + d - 1
        doe == yoe * 365 + yoe \div 4 - yoe \div 100 + doy
    IN  era * 146097 + doe

get_presidency_dates ==
    [Trump |-> <<datetime(2017, 1, 20), datetime(2021, 1, 20)>>,
     Biden |-> <<datetime(2021, 1, 20), datetime(2025, 1, 20)>>]

trump_start == get_presidency_dates.Trump[1]
trump_end == get_presidency_dates.Trump[2]
biden_start == get_presidency_dates.Biden[1]
biden_end == get_presidency_dates.Biden[2]

---------------------------------------------------------------------------
(* The upstream source: what fred.get_series may return *)

\* observation dates: the day before the first term, its first day, a day
\* inside it, the day both terms share, the last day of the second term and
\* the day after it
Times ==
    {trump_start - 1, trump_start, datetime(2019, 9, 21), trump_end,
     biden_end, biden_end + 1}

\* observation values, in units of 1/Scale: -1.0, 0.0, 0.375, 1.0
Vals == {-Scale, 0, 3, Scale}

\* an upstream observation: a date and a value, or a date and a missing value
RawObs ==
    [t : Times, nan : {FALSE}, v : Vals] \cup [t : Times, nan : {TRUE}, v : {0}]

\* upstream responses: any order, repeated dates and missing values allowed
RawSeries == UNION {[1..n -> RawObs] : n \in 0..MaxObs}

---------------------------------------------------------------------------
(* Series Fetcher *)

\* Series.dropna(): the observations whose value is not missing
dropna(s) == SelectSeq(s, LAMBDA o : ~o.nan)

Permute(s, p) == [k \in 1..Len(s) |-> s[p[k]]]

IsSortedByIndex(s) == \A k \in 1..(Len(s) - 1) : s[k].t <= s[k + 1].t

\* Series.sort_index(): the rows in ascending order of the index.  pandas
\* sorts with an unstable sort, so rows that share a date may come out in
\* any order: the set of the results it can produce.
sort_index(s) ==
    {q \in {Permute(s, p) : p \in Permutations(1..Len(s))} : IsSortedByIndex(q)}

\* variant of fetch_fred_data: the series is returned without sort_index()
fetch_fred_data_unsorted(response) == {dropna(response)}

\* fetch_fred_data(series_id), given upstream's response to the request
fetch_fred_data(response) == sort_index(dropna(response))

---------------------------------------------------------------------------
(* Metrics Engine *)

\* what compute_metrics leaves behind when it raises instead of returning
Raised == <<[kind |-> "raise", val |-> 0]>>

RECURSIVE SumOf(_)
SumOf(s) == IF s = <<>> THEN 0 ELSE Head(s).v + SumOf(Tail(s))

RECURSIVE SumSq(_)
SumSq(s) == IF s = <<>> THEN 0 ELSE Head(s).v * Head(s).v + SumSq(Tail(s))

ValuesOf(s) == {s[k].v : k \in 1..Len(s)}

MaxOf(S) == CHOOSE m \in S : \A x \in S : x <= m
MinOf(S) == CHOOSE m \in S : \A x \in S : m <= x

\* the k-th smallest value of s, counting repeated values
KthSmallest(s, k) ==
    CHOOSE x \in ValuesOf(s) :
        /\ Cardinality({j \in 1..Len(s) : s[j].v < x}) < k
        /\ Cardinality({j \in 1..Len(s) : s[j].v <= x}) >= k

\* variant of window_subset: the upper bound is not applied
window_subset_open_end(series, start_date, end_date) ==
    SelectSeq(series, LAMBDA o : o.t >= start_date)

\* variant of window_subset: the two bounds are excluded
window_subset_strict(series, start_date, end_date) ==
    SelectSeq(series, LAMBDA o : o.t > start_date /\ o.t < end_date)

\* series[(series.index >= start_date) & (series.index <= end_date)]
window_subset(series, start_date, end_date) ==
    SelectSeq(series, LAMBDA o : o.t >= start_date /\ o.t <= end_date)

\* [None] * 10
empty_row == [k \in 1..10 |-> None]

\* subset.mean(), rounded
mean(subset) == round(SumOf(subset), Scale * Len(subset))

\* subset.median(), rounded
median(subset) ==
    LET n == Len(subset)
    IN  IF n % 2 = 1 THEN round(KthSmallest(subset, (n + 1) \div 2), Scale)
        ELSE round(KthSmallest(subset, n \div 2) + KthSmallest(subset, n \div 2 + 1),
                   2 * Scale)

\* n * sum(x^2) - sum(x)^2: the sample variance of subset is this over
\* Scale^2 * n * (n - 1)
VarNum(subset) == Len(subset) * SumSq(subset) - SumOf(subset) * SumOf(subset)
VarDen(subset) == Scale * Scale * Len(subset) * (Len(subset) - 1)

\* subset.std() (sample standard deviation, NaN for one observation), rounded
std(subset) ==
    IF Len(subset) < 2 THEN NaN
    ELSE Num(RoundSqrt(100 * 100 * VarNum(subset), VarDen(subset)))

\* std_dev * np.sqrt(12), rounded
ann_volatility(subset) ==
    IF Len(subset) < 2 THEN NaN
    ELSE Num(RoundSqrt(12 * 100 * 100 * VarNum(subset), VarDen(subset)))

\* variant of pct_change: (end / start) * 100, start is not subtracted
pct_change_ratio(start, end) ==
    IF start = 0
    THEN IF end > 0 THEN PosInf ELSE IF end < 0 THEN NegInf ELSE NaN
    ELSE IF start > 0 THEN round(100 * end, start)
    ELSE round(-100 * end, -start)

\* ((end - start) / start) * 100, rounded; numpy divides by zero to an
\* infinity or to NaN and warns, it does not raise
pct_change(start, end) ==
    IF start = 0
    THEN IF end > 0 THEN PosInf ELSE IF end < 0 THEN NegInf ELSE NaN
    ELSE IF start > 0 THEN round(100 * (end - start), start)
    ELSE round(-100 * (end - start), -start)

\* variant of elapsed_days: the days from the first observation in the
\* window to the last
elapsed_days_observed(subset, start_date, end_date) ==
    subset[Len(subset)].t - subset[1].t

\* (end_date - start_date).days
elapsed_days(subset, start_date, end_date) == end_date - start_date

\* (2G - 1)^q * start^p <= (2 * 10^4)^q * end^p, that is
\* G - 1/2 <= 10^4 * (end / start)^(p / q)
PowerFits(G, start, end, p, q) ==
    \/ 2 * G - 1 <= 0
    \/ BigLeq(BigTimesPow(BigTimesPow(<<1>>, 2 * G - 1, q), start, p),
              BigTimesPow(BigTimesPow(<<1>>, 2 * 100 * 100, q), end, p))

RECURSIVE PowerSearch(_, _, _, _, _, _)
PowerSearch(lo, hi, start, end, p, q) ==
    IF hi - lo <= 1 THEN lo
    ELSE LET mid == (lo + hi) \div 2
         IN  IF PowerFits(mid, start, end, p, q)
             THEN PowerSearch(mid, hi, start, end, p, q)
             ELSE PowerSearch(lo, mid, start, end, p, q)

RECURSIVE PowerUpper(_, _, _, _, _)
PowerUpper(hi, start, end, p, q) ==
    IF PowerFits(hi, start, end, p, q)
    THEN PowerUpper(2 * hi, start, end, p, q) ELSE hi

\* ((end / start) ** (1 / years) - 1) * 100 with years = days / 365.25,
\* rounded, for start > 0 and days > 0: 1 / years is p / q in lowest terms;
\* a negative base to a fractional power is NaN in numpy
power_return(start, end, days) ==
    LET g == Gcd(36525, 100 * days)
        p == 36525 \div g
        q == (100 * days) \div g
    IN  IF end < 0 THEN NaN
        ELSE IF end = 0 THEN Num(-100 * 100)
        ELSE Num(PowerSearch(0, PowerUpper(2 * 100 * 100, start, end, p, q),
                             start, end, p, q) - 100 * 100)

\* power_return over the arguments the two term windows give it, computed once
PowerTable ==
    {<<s, e, d, power_return(s, e, d)>> :
        s \in {v \in Vals : v > 0}, e \in Vals,
        d \in {trump_end - trump_start, biden_end - biden_start}}

\* variant of ann_return: guarded by start >= 0, so that a start of zero
\* is divided by
ann_return_nonneg(start, end, days) ==
    IF start >= 0
    THEN IF start = 0 THEN (IF end = 0 THEN NaN ELSE PosInf)
         ELSE power_return(start, end, days)
    ELSE None

\* ann_return = (...) if start > 0 else None.  1 / years raises
\* ZeroDivisionError when the window is zero days long.
ann_return(start, end, days) ==
    IF start > 0
    THEN IF days = 0 THEN Raised[1]
         ELSE IF \E r \in PowerTable : r[1] = start /\ r[2] = end /\ r[3] = days
         THEN (CHOOSE r \in PowerTable :
                   r[1] = start /\ r[2] = end /\ r[3] = days)[4]
         ELSE power_return(start, end, days)
    ELSE None

compute_metrics(series, start_date, end_date) ==
    LET subset == window_subset(series, start_date, end_date)
    IN  IF subset = <<>> THEN empty_row
        ELSE
        LET start == subset[1].v
            end == subset[Len(subset)].v
            ann == ann_return(start, end,
                              elapsed_days(subset, start_date, end_date))
        IN  IF ann = Raised[1] THEN Raised
            ELSE <<round(start, Scale), round(end, Scale), mean(subset),
                   median(subset), std(subset),
                   round(MaxOf(ValuesOf(subset)), Scale),
                   round(MinOf(ValuesOf(subset)), Scale),
                   pct_change(start, end), ann, ann_volatility(subset)>>

---------------------------------------------------------------------------
(* Trend Plotter and Summary Builder *)

\* variant of plot_window: the upper bound is the end of the first term
plot_window_first_term(series) ==
    SelectSeq(series, LAMBDA o : o.t >= trump_start /\ o.t <= trump_end)

\* data[(data.index >= trump_start) & (data.index <= biden_end)]
plot_window(series) ==
    SelectSeq(series, LAMBDA o : o.t >= trump_start /\ o.t <= biden_end)

Labels == 1..MaxLabels

\* the mappings a caller may pass: labels are distinct, their order is kept
MetricDicts ==
    {d \in UNION {[1..n -> Labels] : n \in 0..MaxLabels} :
        \A j, k \in 1..Len(d) : j # k => d[j] # d[k]}

Obs(t, v) == [t |-> t, nan |-> FALSE, v |-> v]
Missing(t) == [t |-> t, nan |-> TRUE, v |-> 0]

\* upstream responses the two loops are run against
Catalog ==
    {<<>>,
     <<Obs(trump_end, Scale)>>,
     <<Obs(datetime(2019, 9, 21), 3), Obs(trump_start, Scale)>>,
     <<Obs(biden_end, 3), Missing(trump_end), Obs(trump_start - 1, Scale)>>,
     <<Obs(trump_start, 0), Obs(biden_end + 1, -Scale)>>}

\* the Term column; the en dash of the source is written as a hyphen
TrumpTerm == "Trump (2017-2021)"
BidenTerm == "Biden (2021-2025)"

columns ==
    <<"Metric", "Term", "Start", "End", "Average", "Median", "Std Dev", "Max",
      "Min", "% Change", "Annualized Return (%)", "Annualized Volatility">>

NoFrame == [columns |-> <<>>, rows |-> <<>>]

\* pd.DataFrame(results, columns=columns)
DataFrame(rows, cols) == [columns |-> cols, rows |-> rows]

Init ==
    /\ metric_dict \in MetricDicts
    /\ pc = "plot"
    /\ i = 0
    /\ raw = <<>>
    /\ data = <<>>
    /\ filtered_data = <<>>
    /\ stats = <<>>
    /\ plot_log = <<>>
    /\ printed = <<>>
    /\ results = <<>>
    /\ sum_log = <<>>
    /\ summary = NoFrame

\* variant of PlotStep: the try encloses the loop, so that the except branch
\* ends it
PlotStepAbort ==
    /\ pc = "plot"
    /\ i < Len(metric_dict)
    /\ LET name == metric_dict[i + 1]
       IN  \/ /\ printed' = Append(printed, <<"plot", name>>)
              /\ plot_log' = Append(plot_log, [name |-> name, shown |-> FALSE])
              /\ pc' = "summary"
              /\ i' = 0
              /\ UNCHANGED <<raw, data, filtered_data>>
           \/ /\ \E response \in Catalog :
                    /\ raw' = response
                    /\ data' \in fetch_fred_data(response)
              /\ filtered_data' = plot_window(data')
              /\ plot_log' = Append(plot_log, [name |-> name, shown |-> TRUE])
              /\ i' = i + 1
              /\ UNCHANGED <<pc, printed>>
    /\ UNCHANGED <<stats, metric_dict, results, sum_log, summary>>

\* one pass of the loop of plot_of_metrics: the try body for the next label,
\* or its except branch when the fetch or the plotting raises
PlotStep ==
    /\ pc = "plot"
    /\ i < Len(metric_dict)
    /\ LET name == metric_dict[i + 1]
       IN  \/ \* fetch_fred_data raises
              /\ printed' = Append(printed, <<"plot", name>>)
              /\ plot_log' = Append(plot_log, [name |-> name, shown |-> FALSE])
              /\ UNCHANGED <<raw, data, filtered_data>>
           \/ \* the fetch returns
              /\ \E response \in Catalog :
                    /\ raw' = response
                    /\ data' \in fetch_fred_data(response)
              /\ filtered_data' = plot_window(data')
              /\ \/ \* a plotting call raises
                    /\ printed' = Append(printed, <<"plot", name>>)
                    /\ plot_log' =
                           Append(plot_log, [name |-> name, shown |-> FALSE])
                 \/ \* plt.show() is reached
                    /\ plot_log' =
                           Append(plot_log, [name |-> name, shown |-> TRUE])
                    /\ UNCHANGED printed
    /\ i' = i + 1
    /\ UNCHANGED <<pc, stats, metric_dict, results, sum_log, summary>>

\* the loop of plot_of_metrics ends; the script calls detailed_value_summary
PlotReturn ==
    /\ pc = "plot"
    /\ i = Len(metric_dict)
    /\ pc' = "summary"
    /\ i' = 0
    /\ UNCHANGED <<raw, data, filtered_data, stats, metric_dict, plot_log,
                   printed, results, sum_log, summary>>

\* the except branch of detailed_value_summary
SummaryFails(name, rows) ==
    /\ printed' = Append(printed, <<"summary", name>>)
    /\ sum_log' = Append(sum_log, [name |-> name, ok |-> FALSE, rows |-> <<>>])
    /\ results' = results \o rows

\* one pass of the loop of detailed_value_summary.  eager: the first-term row
\* is appended as soon as it is computed (the code appends both rows after
\* both computations).
SummaryPass(eager) ==
    /\ pc = "summary"
    /\ i < Len(metric_dict)
    /\ LET name == metric_dict[i + 1]
       IN  \/ \* fetch_fred_data raises
              /\ SummaryFails(name, <<>>)
              /\ UNCHANGED <<raw, data, stats>>
           \/ \* the fetch returns
              /\ \E response \in Catalog :
                    /\ raw' = response
                    /\ data' \in fetch_fred_data(response)
              /\ LET trump_stats == compute_metrics(data', trump_start, trump_end)
                     biden_stats == compute_metrics(data', biden_start, biden_end)
                     trump_row == <<name, TrumpTerm>> \o trump_stats
                     biden_row == <<name, BidenTerm>> \o biden_stats
                 IN  \/ \* the first compute_metrics raises
                        /\ stats' = <<>>
                        /\ SummaryFails(name, <<>>)
                     \/ \* the second compute_metrics raises
                        /\ trump_stats # Raised
                        /\ stats' = <<trump_stats>>
                        /\ SummaryFails(name,
                                        IF eager THEN <<trump_row>> ELSE <<>>)
                     \/ \* both return and both rows are appended
                        /\ trump_stats # Raised
                        /\ biden_stats # Raised
                        /\ stats' = <<trump_stats, biden_stats>>
                        /\ results' = results \o <<trump_row, biden_row>>
                        /\ sum_log' =
                               Append(sum_log,
                                      [name |-> name, ok |-> TRUE,
                                       rows |-> <<trump_row, biden_row>>])
                        /\ UNCHANGED printed
    /\ i' = i + 1
    /\ UNCHANGED <<pc, filtered_data, metric_dict, plot_log, summary>>

\* variant of SummaryStep: each row is appended as soon as it is computed
SummaryStepEager == SummaryPass(TRUE)

SummaryStep == SummaryPass(FALSE)

\* return pd.DataFrame(results, columns=columns)
SummaryReturn ==
    /\ pc = "summary"
    /\ i = Len(metric_dict)
    /\ summary' = DataFrame(results, columns)
    /\ pc' = "done"
    /\ UNCHANGED <<raw, data, filtered_data, stats, metric_dict, i, plot_log,
                   printed, results, sum_log>>

Next == PlotStep \/ PlotReturn \/ SummaryStep \/ SummaryReturn

Spec == Init /\ [][Next]_vars

\* the script runs to its end: a step that can be taken is taken
FairSpec == Spec /\ WF_vars(Next)

---------------------------------------------------------------------------
(* The fetcher, the plot filter and the metrics engine on every upstream   *)
(* response within the bounds                                              *)

UnitInit ==
    /\ raw \in RawSeries
    /\ pc = "request"
    /\ metric_dict = <<1>>
    /\ i = 0
    /\ data = <<>>
    /\ filtered_data = <<>>
    /\ stats = <<>>
    /\ plot_log = <<>>
    /\ printed = <<>>
    /\ results = <<>>
    /\ sum_log = <<>>
    /\ summary = NoFrame

\* data = fetch_fred_data(series_id)
UnitFetch ==
    /\ pc = "request"
    /\ data' \in fetch_fred_data(raw)
    /\ pc' = "fetched"
    /\ UNCHANGED <<raw, filtered_data, stats, metric_dict, i, plot_log, printed,
                   results, sum_log, summary>>

\* filtered_data = data[...] in plot_of_metrics
UnitFilter ==
    /\ pc = "fetched"
    /\ filtered_data' = plot_window(data)
    /\ pc' = "plotted"
    /\ UNCHANGED <<raw, data, stats, metric_dict, i, plot_log, printed, results,
                   sum_log, summary>>

\* trump_stats and biden_stats in detailed_value_summary
UnitCompute ==
    /\ pc = "fetched"
    /\ stats' = <<compute_metrics(data, trump_start, trump_end),
                  compute_metrics(data, biden_start, biden_end)>>
    /\ pc' = "computed"
    /\ UNCHANGED <<raw, data, filtered_data, metric_dict, i, plot_log, printed,
                   results, sum_log, summary>>

UnitNext == UnitFetch \/ UnitFilter \/ UnitCompute

UnitSpec == UnitInit /\ [][UnitNext]_vars

---------------------------------------------------------------------------
(* Properties *)

\* the two term windows, first term first
Windows == <<get_presidency_dates.Trump, get_presidency_dates.Biden>>

\* the positions of data whose date lies in window k, both ends included
InWin(k) ==
    {j \in 1..Len(data) : Windows[k][1] <= data[j].t /\ data[j].t <= Windows[k][2]}

FirstIn(k) == data[CHOOSE j \in InWin(k) : \A m \in InWin(k) : j <= m]
LastIn(k) == data[CHOOSE j \in InWin(k) : \A m \in InWin(k) : m <= j]

AllNull(row) == Len(row) = 10 /\ \A n \in 1..10 : row[n] = None

RECURSIVE Flatten(_)
Flatten(log) == IF log = <<>> THEN <<>> ELSE Head(log).rows \o Flatten(Tail(log))

RECURSIVE ExpectedKeys(_)
\* for each label that did not fail, in order: its first-term row, then its
\* second-term row
ExpectedKeys(log) ==
    IF log = <<>> THEN <<>>
    ELSE (IF Head(log).ok
          THEN <<<<Head(log).name, TrumpTerm>>, <<Head(log).name, BidenTerm>>>>
          ELSE <<>>) \o ExpectedKeys(Tail(log))

RowKeys(rows) == [k \in 1..Len(rows) |-> <<rows[k][1], rows[k][2]>>]

\* C1: the table of detailed_value_summary holds, for each label that did not
\* fail and in input order, its first-term row then its second-term row; a
\* label that failed contributes no row, so there are twice as many rows as
\* labels that did not fail, and the rows of the other labels are the ones
\* computed for them.
C1_SummaryRowsPerLabel ==
    /\ Len(sum_log) <= Len(metric_dict)
    /\ \A k \in 1..Len(sum_log) : sum_log[k].name = metric_dict[k]
    /\ RowKeys(results) = ExpectedKeys(sum_log)
    /\ results = Flatten(sum_log)
    /\ Len(results) = 2 * Cardinality({k \in 1..Len(sum_log) : sum_log[k].ok})
    /\ \A k \in 1..Len(results) : Len(results[k]) = Len(columns)
    /\ pc = "done" =>
          /\ Len(sum_log) = Len(metric_dict)
          /\ summary = [columns |-> columns, rows |-> results]

C1_Witness ==
    /\ pc = "done"
    /\ metric_dict = <<2, 1>>
    /\ ~sum_log[1].ok
    /\ sum_log[2].ok
    /\ RowKeys(summary.rows) = <<<<1, TrumpTerm>>, <<1, BidenTerm>>>>

\* C2: when no observation of the series lies in a window (the empty series
\* included), compute_metrics returns ten nulls for it and does not raise.
C2_EmptyWindowAllNull ==
    pc = "computed" =>
        \A k \in 1..2 : InWin(k) = {} => stats[k] # Raised /\ AllNull(stats[k])

C2_Witness ==
    /\ pc = "computed"
    /\ data # <<>>
    /\ InWin(1) = {}
    /\ AllNull(stats[1])
    /\ ~AllNull(stats[2])

\* C3: when some observation lies in a window, Start is the rounded value of
\* an observation of the earliest date in the window and End the rounded
\* value of one of the latest date in it, both ends of the window included.
C3_StartEndAreFirstAndLast ==
    pc = "computed" =>
        \A k \in 1..2 : InWin(k) # {} =>
            LET lo == MinOf({data[j].t : j \in InWin(k)})
                hi == MaxOf({data[j].t : j \in InWin(k)})
            IN  /\ stats[k] # Raised
                /\ stats[k][1] \in
                       {Num(RoundDiv(100 * data[j].v, Scale)) :
                            j \in {m \in InWin(k) : data[m].t = lo}}
                /\ stats[k][2] \in
                       {Num(RoundDiv(100 * data[j].v, Scale)) :
                            j \in {m \in InWin(k) : data[m].t = hi}}

\* the spec's scenario, in the model's values: observations on 2021-01-20 and
\* later in the second term, the earlier one the larger
C3_Witness ==
    /\ pc = "computed"
    /\ Len(data) = 2
    /\ data[1].t = datetime(2021, 1, 20)
    /\ data[2].t > data[1].t
    /\ InWin(2) = {1, 2}
    /\ data[1].v > data[2].v
    /\ stats[2][1] = Num(100)
    /\ stats[2][2] = Num(38)

\* C4: when some observation lies in a window and the first value in it is
\* zero or negative, Annualized Return is null and nothing is raised; a
\* non-null Annualized Return means the first value is positive.
C4_AnnReturnNullUnlessPositiveStart ==
    pc = "computed" =>
        \A k \in 1..2 : InWin(k) # {} =>
            /\ stats[k] # Raised
            /\ FirstIn(k).v <= 0 => stats[k][9] = None
            /\ stats[k][9] # None => FirstIn(k).v > 0

C4_Witness ==
    /\ pc = "computed"
    /\ InWin(1) # {}
    /\ InWin(2) # {}
    /\ FirstIn(1).v = 0
    /\ FirstIn(2).v < 0
    /\ stats[1][9] = None
    /\ stats[2][9] = None
    /\ stats[1][1] = Num(0)

\* C5 as stated: when the first and the last value in a window are equal,
\* Percent Change is 0.0, a value of 0 included.
C5_EqualEndsGiveZeroChange ==
    pc = "computed" =>
        \A k \in 1..2 : (InWin(k) # {} /\ FirstIn(k).v = LastIn(k).v) =>
            stats[k][8] = Num(0)

\* C5 amended: when the first and the last value in a window are equal and
\* not zero, Percent Change is 0.0; when both are zero it is NaN (0 / 0).
C5_EqualNonzeroEndsGiveZeroChange ==
    pc = "computed" =>
        \A k \in 1..2 : (InWin(k) # {} /\ FirstIn(k).v = LastIn(k).v) =>
            /\ stats[k] # Raised
            /\ FirstIn(k).v # 0 => stats[k][8] = Num(0)
            /\ FirstIn(k).v = 0 => stats[k][8] = NaN

C5_Witness ==
    /\ pc = "computed"
    /\ InWin(1) = {1, 2}
    /\ data[1].t < data[2].t
    /\ data[1].v = data[2].v
    /\ data[1].v < 0
    /\ stats[1][8] = Num(0)


\* every label consumed so far was attempted once, in input order; each
\* failure printed one message; once the loop is left, every label was
PlotLogInOrder ==
    /\ Len(plot_log) <= Len(metric_dict)
    /\ \A k \in 1..Len(plot_log) : plot_log[k].name = metric_dict[k]
    /\ pc = "plot" => Len(plot_log) = i
    /\ pc # "plot" => Len(plot_log) = Len(metric_dict)
    /\ SelectSeq(printed, LAMBDA m : m[1] = "plot") =
           [k \in 1..Cardinality({j \in 1..Len(plot_log) : ~plot_log[j].shown}) |->
               <<"plot", (SelectSeq(plot_log, LAMBDA e : ~e.shown))[k].name>>]

\* C6: plot_of_metrics attempts every label once, in input order; a failure
\* on one label is printed and does not stop the loop, the later labels are
\* still fetched and plotted, and the loop ends after the last label.
C6_PlotterAttemptsEveryLabel == [](PlotLogInOrder) /\ <>(pc # "plot")

C6_Witness ==
    /\ pc # "plot"
    /\ Len(metric_dict) = 2
    /\ Len(plot_log) = 2
    /\ ~plot_log[1].shown
    /\ plot_log[2].shown
    /\ \E m \in 1..Len(printed) : printed[m] = <<"plot", metric_dict[1]>>

\* C7: the two term windows are contiguous and do not overlap: the first
\* ends where the second starts, and compute_metrics' window filter selects
\* no observation date for both terms.
C7_TermWindowsDisjoint ==
    /\ trump_end = biden_start
    /\ pc = "computed" =>
          LET first == window_subset(data, trump_start, trump_end)
              second == window_subset(data, biden_start, biden_end)
          IN  {first[k].t : k \in 1..Len(first)}
                  \cap {second[k].t : k \in 1..Len(second)} = {}

NoMissing(s) == \A k \in 1..Len(s) : ~s[k].nan

\* C8 as stated: whatever upstream returns, the fetched series has no
\* missing value, is sorted by date, and its dates are strictly increasing.
C8_FetchedSortedUnique ==
    pc # "request" =>
        /\ NoMissing(data)
        /\ \A k \in 1..(Len(data) - 1) : data[k].t < data[k + 1].t

\* C8 amended: the fetched series has no missing value and its dates never
\* decrease; they are strictly increasing when no two of upstream's
\* non-missing observations share a date.
C8_FetchedSortedUniqueIfUpstreamIs ==
    pc # "request" =>
        /\ NoMissing(data)
        /\ \A k \in 1..(Len(data) - 1) : data[k].t <= data[k + 1].t
        /\ (\A j, k \in 1..Len(raw) :
                (j # k /\ ~raw[j].nan /\ ~raw[k].nan) => raw[j].t # raw[k].t)
           => \A k \in 1..(Len(data) - 1) : data[k].t < data[k + 1].t

C8_Witness ==
    /\ pc = "fetched"
    /\ Len(raw) = 2
    /\ ~raw[1].nan
    /\ ~raw[2].nan
    /\ raw[1].t > raw[2].t
    /\ data = <<raw[2], raw[1]>>

\* C9: the series plot_of_metrics draws holds exactly the observations that
\* the first-term window or the second-term window selects, in the order of
\* the fetched series.
C9_PlotIsUnionOfTerms ==
    pc = "plotted" =>
        filtered_data =
            SelectSeq(data,
                      LAMBDA o : \E k \in 1..2 :
                          Windows[k][1] <= o.t /\ o.t <= Windows[k][2])

C9_Witness ==
    /\ pc = "plotted"
    /\ Len(data) = 2
    /\ data[1].t < trump_start
    /\ data[2].t > trump_end
    /\ filtered_data = <<data[2]>>

\* C10: Annualized Return depends on the series only through the first and
\* the last value in the window: it is the Annualized Return of the series
\* that has the same two values on the first and the last day of the window,
\* whatever the dates of the observations.
C10_AnnReturnUsesWindowLength ==
    pc = "computed" =>
        \A k \in 1..2 : (InWin(k) # {} /\ stats[k] # Raised) =>
            stats[k][9] =
                compute_metrics(<<Obs(Windows[k][1], FirstIn(k).v),
                                  Obs(Windows[k][2], LastIn(k).v)>>,
                                Windows[k][1], Windows[k][2])[9]

\* a series that ends inside the first term and has grown
C10_Witness ==
    /\ pc = "computed"
    /\ InWin(1) = {1, 2}
    /\ data[1].t = trump_start
    /\ data[2].t < trump_end
    /\ data[1].v = 3
    /\ data[2].v = Scale
    /\ stats[1][9] = Num(2779)

===========================================================================
